---- MODULE Spec2Model ----
(***************************************************************************)
(* A model of the BLE HID-over-GATT client of src/main.py: the reconnect   *)
(* supervisor (run_hid_client_with_reconnect), one session (run_hid_client)*)
(* with its setup calls on the transport, the two background loops         *)
(* (_keepalive_loop, _battery_poll_loop), the battery notification handler *)
(* and the environment (link loss, transport failures, cancellation of the *)
(* supervisor task as done by run_ring_oscquery.main's on_sigint), and the *)
(* notification wrapper of src/run_ring_oscquery.py that publishes the     *)
(* payload bytes as OSCQuery node values.                                  *)
(*                                                                         *)
(* The program runs on one asyncio event loop: a coroutine runs without    *)
(* interruption from one await to the next, so every action below is the   *)
(* code between two suspension points of one task.                         *)
(***************************************************************************)
EXTENDS Integers, Sequences, FiniteSets, TLC

VARIABLES
    tree,           \* client.services of the peripheral: Seq of services
    cfg,            \* the keyword arguments of run_hid_client_with_reconnect
    pc,             \* where the supervisor task is suspended
    outcome,        \* how the current/last session attempt ends
    plan,           \* the transport calls the setup code issues for tree/cfg
    idx,            \* number of setup calls issued so far in this session
    ops,            \* the setup calls issued so far in this session
    link,           \* client.is_connected
    connOpen,       \* a BleakClient context is entered and not yet exited
    cancelPending,  \* Task._must_cancel / a cancelled waiter of the supervisor task
    cancels,        \* number of task.cancel() requests made so far
    battery_state,  \* the dict {"last": ...} of the session
    batHandler,     \* _battery_notification_handler is subscribed
    ktask,          \* keepalive_task: [st, cancel]
    ptask,          \* battery_poll_task: [st, cancel]
    lastReport,     \* value of the latest "Battery: N%" line of this session
    ev,             \* what the last step did (reads, reports, callbacks)
    attempt,        \* number of session attempts started (saturating)
    bridge,         \* run_ring_oscquery: the published node values and what the
                    \* notification wrapper did with the last payload
    loopWriters,    \* the background loops that have assigned battery_state["last"]
                    \* in this session
    call,           \* the last call of a helper function made on its own: its
                    \* arguments and its result
    prevLast        \* battery_state["last"] of the session before, when that dict
                    \* was dropped

vars == <<tree, cfg, pc, outcome, plan, idx, ops, link, connOpen, cancelPending,
          cancels, battery_state, batHandler, ktask, ptask, lastReport, ev, attempt,
          bridge, loopWriters, call, prevLast>>

\* ------------------------------------------------------------------ bounds

\* cancel() requests the environment makes on the supervisor task
MaxCancels == 2
\* the attempt counter saturates here (the loop itself is unbounded)
MaxAttempts == 2

\* ------------------------------------------------------------- data model

None == "None"

\* UUIDs, written by their 16-bit short form
HID_SERVICE_UUID == "1812"
HID_INFORMATION == "2a4a"
HID_REPORT_MAP == "2a4b"
HID_CONTROL_POINT == "2a4c"
HID_REPORT == "2a4d"
BATTERY_SERVICE_UUID == "180f"
BATTERY_LEVEL_CHAR_UUID == "2a19"
ENVIRONMENTAL_SENSING_SERVICE_UUID == "181a"
VENDOR_CHAR_AE41_UUID == "ae41"
VENDOR_CHAR_FFF2_UUID == "fff2"
vendor_uuids == {"ae40", "ae00", "fff0", "181a"}
HID_CONTROL_POINT_EXIT_SUSPEND == <<1>>

Svc(uuid, chars) == [uuid |-> uuid, chars |-> chars]
Chr(uuid, props) == [uuid |-> uuid, props |-> props]

Notifiable(props) == "notify" \in props \/ "indicate" \in props
Writable(props) == "write" \in props \/ "write-without-response" \in props

\* All characteristics in enumeration order, each with its handle <<s, c>>
RECURSIVE CharsFrom(_, _)
CharsFrom(t, s) ==
    IF s > Len(t) THEN <<>>
    ELSE [c \in 1..Len(t[s].chars) |->
            [h |-> <<s, c>>, svc |-> t[s].uuid,
             uuid |-> t[s].chars[c].uuid, props |-> t[s].chars[c].props]]
         \o CharsFrom(t, s + 1)

AllChars(t) == CharsFrom(t, 1)

\* "no characteristic" (Python's None where a characteristic is expected)
NoChar == [h |-> <<0, 0>>, svc |-> None, uuid |-> None, props |-> {}]

First(s) == IF s = <<>> THEN NoChar ELSE s[1]
Last(s) == IF s = <<>> THEN NoChar ELSE s[Len(s)]

\* src/main.py:262-265: the first service whose uuid is the HID service's
HidServiceIndex(t) ==
    IF \E s \in 1..Len(t) : t[s].uuid = HID_SERVICE_UUID
    THEN CHOOSE s \in 1..Len(t) :
            /\ t[s].uuid = HID_SERVICE_UUID
            /\ \A r \in 1..(s - 1) : t[r].uuid # HID_SERVICE_UUID
    ELSE 0

HasHid(t) == HidServiceIndex(t) # 0

HidChars(t) == SelectSeq(AllChars(t), LAMBDA c : c.h[1] = HidServiceIndex(t))

\* ---------------------------------------------------------- hex payloads

NoHex == <<>>
HexDigits == <<"0", "1", "2", "3", "4", "5", "6", "7",
               "8", "9", "a", "b", "c", "d", "e", "f">>
HexValue(ch) == (CHOOSE i \in 1..Len(HexDigits) : HexDigits[i] = ch) - 1
IsHexDigit(ch) == \E i \in 1..Len(HexDigits) : HexDigits[i] = ch

\* bytes.fromhex(hex_payload.replace(" ", "")) raises ValueError unless the payload
\* is an even number of hex digits
ValidHex(hex) ==
    LET d == SelectSeq(hex, LAMBDA ch : ch # " ")
    IN  Len(d) % 2 = 0 /\ \A i \in 1..Len(d) : IsHexDigit(d[i])

\* bytes.fromhex(hex_payload.replace(" ", "")): the bytes of a valid payload
FromHex(hex) ==
    LET d == SelectSeq(hex, LAMBDA ch : ch # " ")
    IN  [i \in 1..(Len(d) \div 2) |->
            16 * HexValue(d[2 * i - 1]) + HexValue(d[2 * i])]

\* ------------------------------------------------- the setup's transport calls

\* One call on the transport made by the setup code.  guarded: the call sits in a
\* try/except Exception.  A "raise" item is an exception raised by the setup code
\* itself, without a transport call.
Item(op, c, role, guarded, payload) ==
    [op |-> op, h |-> c.h, uuid |-> c.uuid, svc |-> c.svc, role |-> role,
     guarded |-> guarded, payload |-> payload, response |-> "write" \in c.props]

RaiseItem ==
    [op |-> "raise", h |-> <<0, 0>>, uuid |-> None, svc |-> None, role |-> "ValueError",
     guarded |-> FALSE, payload |-> <<>>, response |-> FALSE]

\* src/main.py:270-275: the last characteristic of the HID service with that uuid
report_char(t) == Last(SelectSeq(HidChars(t), LAMBDA c : c.uuid = HID_REPORT))
control_point_char(t) ==
    Last(SelectSeq(HidChars(t), LAMBDA c : c.uuid = HID_CONTROL_POINT))

\* src/main.py:278-280
ReportSubscribe(t) ==
    LET rc == report_char(t)
    IN  IF rc # NoChar /\ Notifiable(rc.props)
        THEN <<Item("subscribe", rc, "report", FALSE, <<>>)>>
        ELSE <<>>

\* src/main.py:281-287
ControlPointWrite(t) ==
    LET cp == control_point_char(t)
    IN  IF cp # NoChar /\ Writable(cp.props)
        THEN <<Item("write", cp, "control_point", FALSE, HID_CONTROL_POINT_EXIT_SUSPEND)>>
        ELSE <<>>

\* src/main.py:288-295
HidReads(t) ==
    LET cs == SelectSeq(HidChars(t),
                LAMBDA c : "read" \in c.props
                           /\ c.uuid \in {HID_INFORMATION, HID_REPORT_MAP})
    IN  [i \in 1..Len(cs) |-> Item("read", cs[i], "hid_read", TRUE, <<>>)]

\* src/main.py:302-316, for the characteristics cs of one matching service
RECURSIVE EnvSensingItems(_)
EnvSensingItems(cs) ==
    IF cs = <<>> THEN <<>>
    ELSE LET c == Head(cs)
         IN  (IF c.props # {} /\ Notifiable(c.props)
              THEN <<Item("subscribe", c, "env_notify", TRUE, <<>>)>> ELSE <<>>)
             \o (IF "read" \in c.props
                 THEN <<Item("read", c, "env_read", TRUE, <<>>)>> ELSE <<>>)
             \o EnvSensingItems(Tail(cs))

\* src/main.py:296-316
EnvSensing(t) ==
    EnvSensingItems(SelectSeq(AllChars(t),
                              LAMBDA c : c.svc = ENVIRONMENTAL_SENSING_SERVICE_UUID))

\* src/main.py:322-336: notify/indicate enabled on every characteristic that has it
VendorSubscribes(t) ==
    LET cs == SelectSeq(AllChars(t), LAMBDA c : c.props # {} /\ Notifiable(c.props))
    IN  [i \in 1..Len(cs) |-> Item("subscribe", cs[i], "vendor_notify", TRUE, <<>>)]

\* targets chosen by the "write" property alone
HexWriteTargetsWithResponse(t, uuid) ==
    SelectSeq(AllChars(t), LAMBDA c : c.uuid = uuid /\ "write" \in c.props)

\* src/main.py:346-361: in each service, the first writable characteristic with
\* that uuid is written (the break leaves the inner loop only)
HexWriteTargets(t, uuid) ==
    SelectSeq(AllChars(t),
        LAMBDA c : /\ c.uuid = uuid /\ Writable(c.props)
                   /\ ~\E d \in 1..(c.h[2] - 1) :
                         /\ t[c.h[1]].chars[d].uuid = uuid
                         /\ Writable(t[c.h[1]].chars[d].props))

\* the same writes outside any try
HexWriteUnguarded(t, hex, uuid) ==
    IF hex = NoHex THEN <<>>
    ELSE IF ~ValidHex(hex) THEN <<RaiseItem>>
    ELSE LET cs == HexWriteTargets(t, uuid)
         IN  [i \in 1..Len(cs) |-> Item("write", cs[i], "vendor_write", FALSE, FromHex(hex))]

\* src/main.py:343-361, one turn of the loop over the two (payload, uuid) pairs
HexWrite(t, hex, uuid) ==
    IF hex = NoHex THEN <<>>
    ELSE IF ~ValidHex(hex) THEN <<RaiseItem>>
    ELSE LET cs == HexWriteTargets(t, uuid)
         IN  [i \in 1..Len(cs) |-> Item("write", cs[i], "vendor_write", TRUE, FromHex(hex))]

IsVendorService(suuid) == suuid \in vendor_uuids

\* src/main.py:363-375
VendorReads(t) ==
    LET cs == SelectSeq(AllChars(t),
                LAMBDA c : IsVendorService(c.svc) /\ "read" \in c.props)
    IN  [i \in 1..Len(cs) |-> Item("read", cs[i], "vendor_read", TRUE, <<>>)]

\* a standard path that also enables every notification, as the vendor path does
StandardPathAllNotify(t) ==
    ReportSubscribe(t) \o ControlPointWrite(t) \o HidReads(t) \o EnvSensing(t)
    \o VendorSubscribes(t)

\* src/main.py:267-316: the standard HID-over-GATT path
StandardPath(t) == ReportSubscribe(t) \o ControlPointWrite(t) \o HidReads(t) \o EnvSensing(t)

\* src/main.py:317-375: the vendor path
VendorPath(t, c) ==
    VendorSubscribes(t)
    \o HexWrite(t, c.write_ae41_hex, VENDOR_CHAR_AE41_UUID)
    \o HexWrite(t, c.write_fff2_hex, VENDOR_CHAR_FFF2_UUID)
    \o VendorReads(t)

\* a search for the battery-level uuid in every service
find_battery_char_any_service(t) ==
    First(SelectSeq(AllChars(t),
            LAMBDA c : c.uuid = BATTERY_LEVEL_CHAR_UUID /\ "read" \in c.props))

\* src/main.py:77-86: the first readable battery-level characteristic of a
\* Battery Service
find_battery_char(t) ==
    First(SelectSeq(AllChars(t),
            LAMBDA c : /\ c.svc = BATTERY_SERVICE_UUID
                       /\ c.uuid = BATTERY_LEVEL_CHAR_UUID
                       /\ "read" \in c.props))

\* src/main.py:402-420: only the first vendor service is looked at, and in it only
\* the first readable characteristic
VendorBatteryFallback(t) ==
    LET vs == SelectSeq(AllChars(t), LAMBDA c : IsVendorService(c.svc))
        s1 == IF vs = <<>> THEN 0 ELSE vs[1].h[1]
        rs == SelectSeq(vs, LAMBDA c : c.h[1] = s1 /\ "read" \in c.props)
    IN  IF rs = <<>> THEN <<>>
        ELSE <<Item("read", rs[1], "vendor_battery", TRUE, <<>>)>>

\* src/main.py:377-420
BatterySetup(t) ==
    LET bc == find_battery_char(t)
    IN  IF bc # NoChar
        THEN <<Item("read", bc, "battery_read", TRUE, <<>>)>>
             \o (IF bc.props # {} /\ Notifiable(bc.props)
                 THEN <<Item("subscribe", bc, "battery_notify", TRUE, <<>>)>>
                 ELSE <<>>)
        ELSE VendorBatteryFallback(t)

\* An exception raised by the setup code ends the setup: nothing after it is issued
RECURSIVE UntilRaise(_)
UntilRaise(items) ==
    IF items = <<>> THEN <<>>
    ELSE IF Head(items).op = "raise" THEN <<Head(items)>>
    ELSE <<Head(items)>> \o UntilRaise(Tail(items))

\* src/main.py:258-420: every transport call of the setup, in program order
SetupPlan(t, c) ==
    UntilRaise((IF HasHid(t) THEN StandardPath(t) ELSE VendorPath(t, c)) \o BatterySetup(t))

\* a fallback that takes the first readable characteristic, whatever its uuid
pick_keepalive_char_any_readable(t, battery_char, keepalive_mode) ==
    IF keepalive_mode = "battery" /\ battery_char # NoChar
    THEN battery_char
    ELSE LET cs == SelectSeq(AllChars(t), LAMBDA c : "read" \in c.props)
         IN  IF cs # <<>> THEN cs[1] ELSE battery_char

\* src/main.py:100-117
pick_keepalive_char(t, battery_char, keepalive_mode) ==
    IF keepalive_mode = "battery" /\ battery_char # NoChar
    THEN battery_char
    ELSE LET cs == SelectSeq(AllChars(t),
                     LAMBDA c : "read" \in c.props /\ c.uuid # HID_CONTROL_POINT)
         IN  IF cs # <<>> THEN cs[1] ELSE battery_char

\* ------------------------------------------------ peripherals and configurations

\* HID service with report, control point and report map, and a battery service
TreeHid ==
    <<Svc(HID_SERVICE_UUID, <<Chr(HID_REPORT, {"read", "notify"}),
                              Chr(HID_CONTROL_POINT, {"write-without-response"}),
                              Chr(HID_REPORT_MAP, {"read"})>>),
      Svc(BATTERY_SERVICE_UUID, <<Chr(BATTERY_LEVEL_CHAR_UUID, {"read", "notify"})>>)>>

\* HID service with an input report followed by an output report
TreeHidTwoReports ==
    <<Svc(HID_SERVICE_UUID, <<Chr(HID_REPORT, {"read", "notify"}),
                              Chr(HID_REPORT, {"read", "write"}),
                              Chr(HID_CONTROL_POINT, {"write"})>>)>>

\* HID service next to an Environmental Sensing service and a vendor service
TreeHidVendor ==
    <<Svc(HID_SERVICE_UUID, <<Chr(HID_CONTROL_POINT, {"write-without-response"}),
                              Chr(HID_REPORT, {"notify"})>>),
      Svc(ENVIRONMENTAL_SENSING_SERVICE_UUID, <<Chr("2a6e", {"read", "notify"})>>),
      Svc("ae40", <<Chr(VENDOR_CHAR_AE41_UUID, {"write-without-response", "notify"})>>)>>

\* no HID service: a vendor service and a battery service
TreeVendorBattery ==
    <<Svc("ae40", <<Chr(VENDOR_CHAR_AE41_UUID, {"write-without-response"}),
                    Chr("ae42", {"read", "notify"})>>),
      Svc(BATTERY_SERVICE_UUID, <<Chr(BATTERY_LEVEL_CHAR_UUID, {"read", "notify"})>>)>>

\* no HID service, no battery service, nothing readable
TreeVendorOnly ==
    <<Svc("fff0", <<Chr("fff1", {"indicate"}),
                    Chr(VENDOR_CHAR_FFF2_UUID, {"write"})>>),
      Svc("ae40", <<Chr(VENDOR_CHAR_AE41_UUID, {"write-without-response"})>>)>>

\* no HID service, no battery service: the battery-level uuid inside a vendor service
TreeBatteryInVendor ==
    <<Svc("ae40", <<Chr(BATTERY_LEVEL_CHAR_UUID, {"read", "notify"}),
                    Chr(VENDOR_CHAR_AE41_UUID, {"write-without-response"})>>)>>

Trees ==
    {TreeHid, TreeHidTwoReports, TreeHidVendor, TreeVendorBattery, TreeVendorOnly,
     TreeBatteryInVendor}

Config(target, ka, mode, poll, cb, ae41, fff2) ==
    [address_or_name |-> target, keepalive_interval |-> ka, keepalive_mode |-> mode,
     battery_poll_interval |-> poll, on_battery_updated |-> cb,
     write_ae41_hex |-> ae41, write_fff2_hex |-> fff2]

\* on_battery_updated: "none" (not given), "ok" (never raises), "flaky" (may raise)
Configs ==
    { Config(None, 5, "battery", 60, "flaky", NoHex, NoHex),
      Config("ring", 5, "vendor", 0, "ok", <<"0", "1">>, <<"0", "2", " ", "0", "1">>),
      Config(None, 0, "battery", 60, "none", <<"z", "z">>, NoHex),
      Config("ring", 5, "battery", 0, "ok", <<"0", "1">>, <<"0">>),
      Config("AA:BB:CC:DD:EE:FF", 0, "battery", 0, "none", NoHex, <<"0", "1">>) }

\* src/main.py:38
DEFAULT_DEVICE_ADDRESS == "B0:B3:53:EB:40:8D"

\* The devices that may be advertising during a scan; hid: the advertisement
\* carries the HID service uuid
Device(address, name, hid) == [address |-> address, name |-> name, hid |-> hid]
Devices ==
    { Device("AA:BB:CC:DD:EE:FF", "ring", TRUE),
      Device(DEFAULT_DEVICE_ADDRESS, "RayNeo", FALSE) }

\* src/main.py:198: len(name_or_address) == 17 and ":" in name_or_address, for the
\* strings of this model
IsAddress(name_or_address) ==
    name_or_address \in {"AA:BB:CC:DD:EE:FF", DEFAULT_DEVICE_ADDRESS}

\* src/main.py:195-203: the devices the scanner may return for that argument among
\* those in range (none: it returns None after the timeout)
find_hid_device(name_or_address, inRange) ==
    IF IsAddress(name_or_address)
    THEN {d \in inRange : d.address = name_or_address}
    ELSE {d \in inRange : d.name = name_or_address}

\* src/main.py:231: address_or_name if address_or_name else DEFAULT_DEVICE_ADDRESS
ScanTarget(c) ==
    IF c.address_or_name # None THEN c.address_or_name ELSE DEFAULT_DEVICE_ADDRESS

\* first bytes a read or a notification may deliver
RawBytes == {40, 200}

\* ------------------------------------------------------------------ battery

\* battery_state["last"] is None
NoLevel == -1

\* the byte taken as it is
Unclamped(b) == b

\* src/main.py:94, 138, 391
Clamp(b) == IF b > 100 THEN 100 ELSE IF b < 0 THEN 0 ELSE b

\* the dict of the session before, kept
KeptBatteryState(old) == old

\* src/main.py:378: battery_state: dict = {"last": None}
FreshBatteryState(old) == [last |-> NoLevel]

\* a callback only together with a change report
CallsBackOnChange(c, rep) == c.on_battery_updated # "none" /\ rep

\* src/main.py:143-144, 173-174, 385-386, 395-396: on_battery_updated is called
\* after, not inside, the comparison with battery_state["last"]
CallsBack(c, rep) == c.on_battery_updated # "none"

\* a report on every observation
ReportsAlways(level, last) == TRUE

\* src/main.py:140, 170, 392: level != battery_state.get("last")
ReportsChange(level, last) == level # last

\* --------------------------------------------- the OSCQuery bridge's wrapper

\* src/run_ring_oscquery.py:29-38
IDX_BYTE_10 == 10
IDX_BYTE_11 == 11
IDX_BYTE_12 == 12
ACCEL_START == 0
GYRO_START == 6
REPORT_MIN_LEN_FOR_IMU == 12

PointerPaths == <<"X", "Y", "press">>
ImuPaths == <<"accel_x", "accel_y", "accel_z", "gyro_x", "gyro_y", "gyro_z">>

\* src/run_ring_oscquery.py:52-78: every node starts at 0.  An IMU node holds its
\* value in units of IMU_ACCEL_SCALE = IMU_GYRO_SCALE = 1/16384
InitialNodes == [p \in {"X", "Y", "press", "accel_x", "accel_y", "accel_z",
                        "gyro_x", "gyro_y", "gyro_z"} |-> 0]

NoBridge == [nodes |-> InitialNodes, before |-> InitialNodes, data |-> <<>>,
             log |-> <<>>, raised |-> FALSE]

\* the two bytes taken as an unsigned number
parse_uint16_le(data, offset) ==
    IF offset + 2 > Len(data) THEN 0
    ELSE data[offset + 1] + 256 * data[offset + 2]

\* src/run_ring_oscquery.py:85-91
parse_int16_le(data, offset) ==
    IF offset + 2 > Len(data) THEN 0
    ELSE LET v == data[offset + 1] + 256 * data[offset + 2]
         IN  IF v >= 32768 THEN v - 65536 ELSE v

\* src/run_ring_oscquery.py:102-107
ImuValues(data) ==
    <<parse_int16_le(data, ACCEL_START + 0), parse_int16_le(data, ACCEL_START + 2),
      parse_int16_le(data, ACCEL_START + 4), parse_int16_le(data, GYRO_START + 0),
      parse_int16_le(data, GYRO_START + 2), parse_int16_le(data, GYRO_START + 4)>>

\* data[i] of a bytearray raises IndexError when i is not below len(data)
IndexError == -1
ByteAt(data, i) == IF i < Len(data) THEN data[i + 1] ELSE IndexError

\* a pointer update from 12 bytes on
PointerDueFrom12(data) == ~(Len(data) < IDX_BYTE_12)

\* src/run_ring_oscquery.py:118-121: the pointer update is skipped when
\* len(data) <= IDX_BYTE_12
PointerDue(data) == ~(Len(data) <= IDX_BYTE_12)

\* src/run_ring_oscquery.py:100
ImuDue(data) == REPORT_MIN_LEN_FOR_IMU > 0 /\ Len(data) >= REPORT_MIN_LEN_FOR_IMU

\* service.update_value(paths[i], values[i]) for i = 1, 2, ... inside one try: the
\* calls before the one that raises (raises = 0: none does) have taken effect
UpdateValues(nodes, paths, values, raises) ==
    LET done == IF raises = 0 THEN Len(paths) ELSE raises - 1
    IN  [p \in DOMAIN nodes |->
            IF \E i \in 1..done : paths[i] = p
            THEN values[CHOOSE i \in 1..done : paths[i] = p]
            ELSE nodes[p]]

\* ------------------------------------------------------------------- tasks

NoTask == [st |-> "none", cancel |-> FALSE]
NewTask == [st |-> "new", cancel |-> FALSE]
Running(t) == t.st \notin {"none", "done"}

\* what one step did, for the properties
NoEv == [src |-> "none", woke |-> "none", read |-> "none", readLink |-> FALSE,
         setupFailed |-> FALSE, scanned |-> FALSE, inRange |-> {}, device |-> None,
         obs |-> NoLevel, before |-> NoLevel, report |-> NoLevel,
         prevReport |-> NoLevel, cb |-> NoLevel, raw |-> NoLevel,
         failed |-> "none"]

Observation(raw, src, level, last, rep, prev, cb) ==
    [NoEv EXCEPT !.raw = raw, !.src = src, !.obs = level, !.before = last,
                 !.report = IF rep THEN level ELSE NoLevel, !.prevReport = prev,
                 !.cb = IF cb THEN level ELSE NoLevel]

\* no helper was called on its own
NoCall == [fn |-> "none"]

\* the state in which run_hid_client_with_reconnect is called
Start ==
    /\ tree \in Trees
    /\ cfg \in Configs
    /\ pc = "scan"
    /\ outcome = "none"
    /\ plan = <<>>
    /\ idx = 0
    /\ ops = <<>>
    /\ link = FALSE
    /\ connOpen = FALSE
    /\ cancelPending = FALSE
    /\ cancels = 0
    /\ battery_state = [last |-> NoLevel]
    /\ batHandler = FALSE
    /\ ktask = NoTask
    /\ ptask = NoTask
    /\ lastReport = NoLevel
    /\ ev = NoEv
    /\ attempt = 1
    /\ bridge = NoBridge
    /\ loopWriters = {}
    /\ prevLast = NoLevel

Init == Start /\ call = NoCall

\* ------------------------------------------------------------- the session

\* src/main.py:509-520: what the supervisor does with the way run_hid_client ended:
\* a normal return and the four caught exception classes lead to the sleep,
\* CancelledError and every other exception leave the loop
Supervise(kind) == IF kind \in {"return", "bleak"} THEN "delay" ELSE "stopped"

\* a teardown that leaves the battery poll task alone
PollTeardownNoJoin(pt) == ptask' = pt /\ pc' = "closing" /\ outcome' = "return"

\* src/main.py:463-469: cancel and await the battery poll task, then leave the
\* async with block
PollTeardown(pt) ==
    IF Running(pt)
    THEN ptask' = [pt EXCEPT !.cancel = TRUE] /\ pc' = "joinP" /\ outcome' = outcome
    ELSE ptask' = pt /\ pc' = "closing" /\ outcome' = "return"

\* a teardown that leaves the keepalive task alone
TeardownNoJoin(kt, pt) == ktask' = kt /\ PollTeardown(pt)

\* src/main.py:456-462: cancel and await the keepalive task
Teardown(kt, pt) ==
    IF Running(kt)
    THEN ktask' = [kt EXCEPT !.cancel = TRUE] /\ ptask' = pt
         /\ pc' = "joinK" /\ outcome' = outcome
    ELSE ktask' = kt /\ PollTeardown(pt)

\* a keepalive task for every interval
StartsKeepaliveAnyInterval(t, c) ==
    pick_keepalive_char(t, find_battery_char(t), c.keepalive_mode) # NoChar

\* src/main.py:428: is the keepalive task created
StartsKeepalive(t, c) ==
    /\ c.keepalive_interval > 0
    /\ pick_keepalive_char(t, find_battery_char(t), c.keepalive_mode) # NoChar

\* src/main.py:440: is the battery poll task created
StartsBatteryPoll(t, c) ==
    c.battery_poll_interval > 0 /\ find_battery_char(t) # NoChar

\* src/main.py:422-455: the tasks are created and the idle wait is entered
EnterIdle(up) ==
    LET kt == IF StartsKeepalive(tree, cfg) THEN NewTask ELSE NoTask
        pt == IF StartsBatteryPoll(tree, cfg) THEN NewTask ELSE NoTask
    IN  IF up
        THEN ktask' = kt /\ ptask' = pt /\ pc' = "idle" /\ outcome' = outcome
        ELSE Teardown(kt, pt)

\* a setup that creates the keepalive task before its first call
ProceedTasksFirst(p, i, up) ==
    IF i < Len(p) /\ p[i + 1].op # "raise"
    THEN /\ idx' = i + 1 /\ ops' = SubSeq(p, 1, i + 1)
         /\ pc' = "setup" /\ outcome' = outcome
         /\ ktask' = IF i = 0 /\ StartsKeepalive(tree, cfg) THEN NewTask ELSE ktask
         /\ ptask' = ptask
    ELSE IF i < Len(p)
    THEN /\ idx' = i /\ ops' = SubSeq(p, 1, i)
         /\ pc' = "closing" /\ outcome' = "other"
         /\ UNCHANGED <<ktask, ptask>>
    ELSE /\ idx' = i /\ ops' = SubSeq(p, 1, i)
         /\ EnterIdle(up)

\* The setup code after i calls have completed, up to its next await; up is
\* client.is_connected
Proceed(p, i, up) ==
    IF i < Len(p) /\ p[i + 1].op # "raise"
    THEN /\ idx' = i + 1 /\ ops' = SubSeq(p, 1, i + 1)
         /\ pc' = "setup" /\ outcome' = outcome
         /\ UNCHANGED <<ktask, ptask>>
    ELSE IF i < Len(p)
    THEN /\ idx' = i /\ ops' = SubSeq(p, 1, i)
         /\ pc' = "closing" /\ outcome' = "other"
         /\ UNCHANGED <<ktask, ptask>>
    ELSE /\ idx' = i /\ ops' = SubSeq(p, 1, i)
         /\ EnterIdle(up)

\* An exception leaves run_hid_client through the async with block
Abort(kind) ==
    /\ pc' = "closing" /\ outcome' = kind
    /\ UNCHANGED <<idx, ops, ktask, ptask>>

\* src/main.py:231-240, 195-203: find_hid_device returns or raises
ScanDone ==
    /\ pc = "scan"
    /\ \/ /\ cancelPending
          /\ cancelPending' = FALSE /\ pc' = "stopped" /\ outcome' = "cancel"
          /\ ev' = NoEv
       \/ \* the scanner raises
          /\ ~cancelPending
          /\ pc' = Supervise("bleak") /\ outcome' = "bleak"
          /\ ev' = NoEv
          /\ UNCHANGED cancelPending
       \/ /\ ~cancelPending
          /\ \E inRange \in SUBSET Devices :
                LET found == find_hid_device(ScanTarget(cfg), inRange)
                    scan == [NoEv EXCEPT !.scanned = TRUE, !.inRange = inRange]
                IN  IF found = {}
                    THEN /\ pc' = Supervise("return") /\ outcome' = "return"
                         /\ ev' = scan
                    ELSE /\ pc' = "connect" /\ outcome' = outcome
                         /\ \E d \in found : ev' = [scan EXCEPT !.device = d.address]
          /\ UNCHANGED cancelPending
    /\ UNCHANGED <<bridge, call, prevLast, loopWriters, tree, cfg, plan, idx, ops, link, connOpen, cancels, battery_state,
                   batHandler, ktask, ptask, lastReport, attempt>>

\* src/main.py:242-247, 378: BleakClient.__aenter__ returns or raises
ConnectDone ==
    /\ pc = "connect"
    /\ \/ /\ cancelPending
          /\ cancelPending' = FALSE /\ pc' = "stopped" /\ outcome' = "cancel"
          /\ UNCHANGED <<plan, idx, ops, link, connOpen, battery_state, prevLast,
                         ktask, ptask>>
       \/ /\ ~cancelPending
          /\ pc' = Supervise("bleak") /\ outcome' = "bleak"
          /\ UNCHANGED <<cancelPending, plan, idx, ops, link, connOpen, battery_state,
                         prevLast, ktask, ptask>>
       \/ /\ ~cancelPending
          /\ connOpen' = TRUE /\ link' = FALSE
          /\ pc' = "closing" /\ outcome' = "return"
          /\ UNCHANGED <<cancelPending, plan, idx, ops, battery_state, prevLast,
                         ktask, ptask>>
       \/ /\ ~cancelPending
          /\ connOpen' = TRUE /\ link' = TRUE
          /\ plan' = SetupPlan(tree, cfg)
          /\ battery_state' = FreshBatteryState(battery_state)
          /\ prevLast' = battery_state.last
          /\ Proceed(SetupPlan(tree, cfg), 0, TRUE)
          /\ UNCHANGED cancelPending
    /\ ev' = NoEv
    /\ UNCHANGED <<bridge, call, loopWriters, tree, cfg, cancels, batHandler, lastReport, attempt>>

\* src/main.py:278-400: the awaited setup call returns or raises
SetupStep ==
    /\ pc = "setup"
    /\ LET item == plan[idx]
       IN  \/ /\ cancelPending
              /\ cancelPending' = FALSE
              /\ Abort("cancel")
              /\ ev' = NoEv
              /\ UNCHANGED <<battery_state, batHandler, lastReport>>
           \/ /\ ~cancelPending
              /\ ev' = [NoEv EXCEPT !.setupFailed = TRUE]
              /\ IF item.guarded THEN Proceed(plan, idx, link) ELSE Abort("bleak")
              /\ UNCHANGED <<cancelPending, battery_state, batHandler, lastReport>>
           \/ /\ ~cancelPending /\ link
              /\ item.role \notin {"battery_read", "battery_notify", "vendor_battery"}
              /\ ev' = NoEv
              /\ Proceed(plan, idx, link)
              /\ UNCHANGED <<cancelPending, battery_state, batHandler, lastReport>>
           \/ /\ ~cancelPending /\ link
              /\ item.role = "battery_notify"
              /\ batHandler' = TRUE
              /\ ev' = NoEv
              /\ Proceed(plan, idx, link)
              /\ UNCHANGED <<cancelPending, battery_state, lastReport>>
           \/ \* src/main.py:381-386: the initial battery read
              /\ ~cancelPending /\ link
              /\ item.role = "battery_read"
              /\ \E data \in RawBytes \cup {NoLevel} :
                    IF data = NoLevel
                    THEN /\ ev' = NoEv
                         /\ Proceed(plan, idx, link)
                         /\ UNCHANGED <<battery_state, lastReport>>
                    ELSE /\ battery_state' = [last |-> Clamp(data)]
                         /\ lastReport' = Clamp(data)
                         /\ ev' = Observation(data, "initial", Clamp(data), battery_state.last,
                                              TRUE, lastReport, CallsBack(cfg, TRUE))
                         /\ \/ Proceed(plan, idx, link)
                            \/ cfg.on_battery_updated = "flaky" /\ Abort("other")
              /\ UNCHANGED <<cancelPending, batHandler>>
           \/ \* src/main.py:411-418: the vendor fallback read
              /\ ~cancelPending /\ link
              /\ item.role = "vendor_battery"
              /\ \E data \in RawBytes :
                    ev' = [NoEv EXCEPT !.src = "vendor",
                             !.cb = IF data <= 100 /\ cfg.on_battery_updated # "none"
                                    THEN data ELSE NoLevel]
              /\ Proceed(plan, idx, link)
              /\ UNCHANGED <<cancelPending, battery_state, batHandler, lastReport>>
    /\ UNCHANGED <<bridge, call, prevLast, loopWriters, tree, cfg, plan, link, connOpen, cancels, attempt>>

\* src/main.py:451-456: the idle wait wakes up
IdleStep ==
    /\ pc = "idle"
    /\ \/ /\ cancelPending
          /\ cancelPending' = FALSE
          /\ Teardown(ktask, ptask)
       \/ /\ ~cancelPending /\ ~link
          /\ Teardown(ktask, ptask)
          /\ UNCHANGED cancelPending
       \/ /\ ~cancelPending /\ link
          /\ UNCHANGED <<cancelPending, pc, outcome, ktask, ptask>>
    /\ ev' = NoEv
    /\ UNCHANGED <<bridge, call, prevLast, loopWriters, tree, cfg, plan, idx, ops, link, connOpen, cancels, battery_state,
                   batHandler, lastReport, attempt>>

\* src/main.py:459-462: await keepalive_task returns, or raises CancelledError,
\* which is caught
JoinKeepalive ==
    /\ pc = "joinK"
    /\ ktask.st = "done"
    /\ cancelPending' = FALSE
    /\ PollTeardown(ptask)
    /\ ev' = NoEv
    /\ UNCHANGED <<bridge, call, prevLast, loopWriters, tree, cfg, plan, idx, ops, link, connOpen, cancels, battery_state,
                   batHandler, ktask, lastReport, attempt>>

\* src/main.py:465-469: await battery_poll_task returns, or raises CancelledError,
\* which is caught
JoinBatteryPoll ==
    /\ pc = "joinP"
    /\ ptask.st = "done"
    /\ cancelPending' = FALSE
    /\ pc' = "closing" /\ outcome' = "return"
    /\ ev' = NoEv
    /\ UNCHANGED <<bridge, call, prevLast, loopWriters, tree, cfg, plan, idx, ops, link, connOpen, cancels, battery_state,
                   batHandler, ktask, ptask, lastReport, attempt>>

\* an exit that leaves the connection as it is
ExitKeepsConnection(open) == open

\* src/main.py:243: leaving the async with block disconnects the client
ExitDisconnects(open) == FALSE

\* src/main.py:243: BleakClient.__aexit__ (disconnect) ends, and the supervisor
\* (src/main.py:509-520) takes over
CloseDone ==
    /\ pc = "closing"
    /\ \/ /\ cancelPending
          /\ cancelPending' = FALSE /\ pc' = "stopped" /\ outcome' = "cancel"
          /\ \E open \in BOOLEAN : connOpen' = open /\ link' = (open /\ link)
       \/ /\ ~cancelPending
          /\ connOpen' = ExitDisconnects(connOpen) /\ link' = FALSE
          /\ pc' = Supervise(outcome)
          /\ UNCHANGED <<cancelPending, outcome>>
    /\ batHandler' = FALSE
    /\ ev' = NoEv
    /\ UNCHANGED <<bridge, call, prevLast, loopWriters, tree, cfg, plan, idx, ops, cancels, battery_state, ktask, ptask,
                   lastReport, attempt>>

\* src/main.py:497-520: the sleep of reconnect_delay ends and the loop calls
\* run_hid_client again with the same arguments
DelayDone ==
    /\ pc = "delay"
    /\ \/ /\ cancelPending
          /\ cancelPending' = FALSE /\ pc' = "stopped" /\ outcome' = "cancel"
          /\ UNCHANGED <<plan, idx, ops, ktask, ptask, lastReport, attempt, loopWriters>>
       \/ /\ ~cancelPending
          /\ pc' = "scan" /\ outcome' = "none"
          /\ plan' = <<>> /\ idx' = 0 /\ ops' = <<>>
          /\ ktask' = NoTask /\ ptask' = NoTask /\ lastReport' = NoLevel
          /\ loopWriters' = {}
          /\ attempt' = IF attempt < MaxAttempts THEN attempt + 1 ELSE attempt
          /\ UNCHANGED cancelPending
    /\ ev' = NoEv
    /\ UNCHANGED <<bridge, call, prevLast, tree, cfg, link, connOpen, cancels, battery_state, batHandler>>

\* --------------------------------------------------------- background loops

\* a loop condition without is_connected()
LoopTopIgnoresLink(up, interval_sec) == IF interval_sec > 0 THEN "sleep" ELSE "done"

\* src/main.py:130, 163: while is_connected() and interval_sec > 0
LoopTop(up, interval_sec) == IF up /\ interval_sec > 0 THEN "sleep" ELSE "done"

\* a loop that a failed read ends
FailedReadEndsLoop(up, interval_sec) == "done"

\* src/main.py:149-151, 95-97, 169: the exception of a read is caught inside the
\* loop body (a read without a byte skips the rest of it), and the while
\* condition is evaluated again
AfterFailedRead(up, interval_sec) == LoopTop(up, interval_sec)

\* no check after the sleep
AliveUnchecked(up) == TRUE

\* src/main.py:133-134, 166-167: the check made right after the sleep
AliveAfterSleep(up) == up

\* battery_state given to the keepalive loop in every session
KeepaliveAlwaysHasBatteryState(t) == TRUE

\* src/main.py:436: battery_state if battery_char else None
KeepaliveHasBatteryState(t) == find_battery_char(t) # NoChar

\* src/main.py:120-151: _keepalive_loop, from one await to the next
KeepaliveStep ==
    /\ Running(ktask)
    /\ \/ \* a cancel() is thrown into the coroutine at its await (or before its start)
          /\ ktask.cancel
          /\ ktask' = [ktask EXCEPT !.st = "done"]
          /\ ev' = NoEv
          /\ UNCHANGED <<battery_state, lastReport, loopWriters>>
       \/ /\ ~ktask.cancel /\ ktask.st = "new"
          /\ ktask' = [ktask EXCEPT !.st = LoopTop(link, cfg.keepalive_interval)]
          /\ ev' = NoEv
          /\ UNCHANGED <<battery_state, lastReport, loopWriters>>
       \/ /\ ~ktask.cancel /\ ktask.st = "sleep"
          /\ IF AliveAfterSleep(link)
             THEN /\ ktask' = [ktask EXCEPT !.st = "read"]
                  /\ ev' = [NoEv EXCEPT !.woke = "keepalive", !.read = "keepalive",
                                        !.readLink = link]
             ELSE /\ ktask' = [ktask EXCEPT !.st = "done"]
                  /\ ev' = [NoEv EXCEPT !.woke = "keepalive", !.readLink = link]
          /\ UNCHANGED <<battery_state, lastReport, loopWriters>>
       \/ \* the read raises, or returns no byte
          /\ ~ktask.cancel /\ ktask.st = "read"
          /\ ktask' = [ktask EXCEPT !.st = AfterFailedRead(link, cfg.keepalive_interval)]
          /\ ev' = [NoEv EXCEPT !.failed = "keepalive"]
          /\ UNCHANGED <<battery_state, lastReport, loopWriters>>
       \/ \* the read returns data; a raising callback is caught at line 149
          /\ ~ktask.cancel /\ ktask.st = "read" /\ link
          /\ ktask' = [ktask EXCEPT !.st = LoopTop(link, cfg.keepalive_interval)]
          /\ \E data \in RawBytes :
                LET level == Clamp(data)
                    rep == ReportsChange(level, battery_state.last)
                IN  IF KeepaliveHasBatteryState(tree)
                    THEN /\ battery_state' = [last |-> IF rep THEN level
                                                       ELSE battery_state.last]
                         /\ lastReport' = IF rep THEN level ELSE lastReport
                         /\ loopWriters' = IF rep THEN loopWriters \cup {"keepalive"} ELSE loopWriters
                         /\ ev' = Observation(data, "keepalive", level, battery_state.last, rep,
                                              lastReport, CallsBack(cfg, rep))
                    ELSE /\ ev' = NoEv
                         /\ UNCHANGED <<battery_state, lastReport, loopWriters>>
    /\ UNCHANGED <<bridge, call, prevLast, tree, cfg, pc, outcome, plan, idx, ops, link, connOpen, cancelPending,
                   cancels, batHandler, ptask, attempt>>

\* src/main.py:154-179, 89-97: _battery_poll_loop, from one await to the next
BatteryPollStep ==
    /\ Running(ptask)
    /\ \/ /\ ptask.cancel
          /\ ptask' = [ptask EXCEPT !.st = "done"]
          /\ ev' = NoEv
          /\ UNCHANGED <<battery_state, lastReport, loopWriters>>
       \/ /\ ~ptask.cancel /\ ptask.st = "new"
          /\ ptask' = [ptask EXCEPT !.st = LoopTop(link, cfg.battery_poll_interval)]
          /\ ev' = NoEv
          /\ UNCHANGED <<battery_state, lastReport, loopWriters>>
       \/ /\ ~ptask.cancel /\ ptask.st = "sleep"
          /\ IF AliveAfterSleep(link)
             THEN /\ ptask' = [ptask EXCEPT !.st = "read"]
                  /\ ev' = [NoEv EXCEPT !.woke = "poll", !.read = "poll",
                                        !.readLink = link]
             ELSE /\ ptask' = [ptask EXCEPT !.st = "done"]
                  /\ ev' = [NoEv EXCEPT !.woke = "poll", !.readLink = link]
          /\ UNCHANGED <<battery_state, lastReport, loopWriters>>
       \/ \* _read_battery_level returns None: the read raised or returned no byte
          /\ ~ptask.cancel /\ ptask.st = "read"
          /\ ptask' = [ptask EXCEPT !.st = AfterFailedRead(link, cfg.battery_poll_interval)]
          /\ ev' = [NoEv EXCEPT !.failed = "poll"]
          /\ UNCHANGED <<battery_state, lastReport, loopWriters>>
       \/ \* _read_battery_level returns a level; a raising callback is caught at line 177
          /\ ~ptask.cancel /\ ptask.st = "read" /\ link
          /\ ptask' = [ptask EXCEPT !.st = LoopTop(link, cfg.battery_poll_interval)]
          /\ \E data \in RawBytes :
                LET level == Clamp(data)
                    rep == ReportsChange(level, battery_state.last)
                IN  /\ battery_state' = [last |-> IF rep THEN level ELSE battery_state.last]
                    /\ lastReport' = IF rep THEN level ELSE lastReport
                    /\ loopWriters' = IF rep THEN loopWriters \cup {"poll"} ELSE loopWriters
                    /\ ev' = Observation(data, "poll", level, battery_state.last, rep,
                                         lastReport, CallsBack(cfg, rep))
    /\ UNCHANGED <<bridge, call, prevLast, tree, cfg, pc, outcome, plan, idx, ops, link, connOpen, cancelPending,
                   cancels, batHandler, ktask, attempt>>

\* src/main.py:389-396: _battery_notification_handler is called by the transport
BatteryNotify ==
    /\ batHandler /\ link /\ connOpen
    /\ \E data \in RawBytes \cup {NoLevel} :
          IF data = NoLevel
          THEN ev' = NoEv /\ UNCHANGED <<battery_state, lastReport>>
          ELSE LET level == Clamp(data)
                   rep == ReportsChange(level, battery_state.last)
               IN  /\ battery_state' = [last |-> IF rep THEN level ELSE battery_state.last]
                   /\ lastReport' = IF rep THEN level ELSE lastReport
                   /\ ev' = Observation(data, "notify", level, battery_state.last, rep,
                                        lastReport, CallsBack(cfg, rep))
    /\ UNCHANGED <<bridge, call, prevLast, loopWriters, tree, cfg, pc, outcome, plan, idx, ops, link, connOpen, cancelPending,
                   cancels, batHandler, ktask, ptask, attempt>>

\* ------------------------------------------------------------- environment

\* src/run_ring_oscquery.py:264-266: on_sigint calls task.cancel() on the supervisor
\* task.  A task awaiting another task passes the request on to it; otherwise
\* CancelledError is thrown at the await the task is suspended in.
Cancel ==
    /\ cancels < MaxCancels
    /\ pc # "stopped"
    /\ cancels' = cancels + 1
    /\ IF pc = "joinK" /\ Running(ktask)
       THEN ktask' = [ktask EXCEPT !.cancel = TRUE] /\ UNCHANGED <<ptask, cancelPending>>
       ELSE IF pc = "joinP" /\ Running(ptask)
       THEN ptask' = [ptask EXCEPT !.cancel = TRUE] /\ UNCHANGED <<ktask, cancelPending>>
       ELSE cancelPending' = TRUE /\ UNCHANGED <<ktask, ptask>>
    /\ ev' = NoEv
    /\ UNCHANGED <<bridge, call, prevLast, loopWriters, tree, cfg, pc, outcome, plan, idx, ops, link, connOpen, battery_state,
                   batHandler, lastReport, attempt>>

\* the transport reports link loss: client.is_connected becomes False
LinkDrop ==
    /\ connOpen /\ link
    /\ link' = FALSE
    /\ ev' = NoEv
    /\ UNCHANGED <<bridge, call, prevLast, loopWriters, tree, cfg, pc, outcome, plan, idx, ops, connOpen, cancelPending,
                   cancels, battery_state, batHandler, ktask, ptask, lastReport, attempt>>

Next ==
    \/ ScanDone
    \/ ConnectDone
    \/ SetupStep
    \/ IdleStep
    \/ JoinKeepalive
    \/ JoinBatteryPoll
    \/ CloseDone
    \/ DelayDone
    \/ KeepaliveStep
    \/ BatteryPollStep
    \/ BatteryNotify
    \/ Cancel
    \/ LinkDrop

Spec == Init /\ [][Next]_vars

\* Every started await of the program ends: the event loop runs every ready task,
\* scan and connect have timeouts, and sleeps elapse
Program ==
    \/ ScanDone
    \/ ConnectDone
    \/ SetupStep
    \/ IdleStep
    \/ JoinKeepalive
    \/ JoinBatteryPoll
    \/ CloseDone
    \/ DelayDone
    \/ KeepaliveStep
    \/ BatteryPollStep

\* The event loop also runs each ready task in turn, so neither background task
\* waits forever while the other one keeps running
FairSpec ==
    /\ Init /\ [][Next]_vars
    /\ WF_vars(Program)
    /\ WF_vars(KeepaliveStep)
    /\ WF_vars(BatteryPollStep)

\* ------------------------------------------------------------------- claims

\* the supervisor has control: run_hid_client is not running
InSupervisor == pc \in {"scan", "connect", "delay", "stopped"}

\* C1: whenever control is back in run_hid_client_with_reconnect, no background
\* task that was started is still alive, whichever way the idle wait was left
C1_TasksJoinedBeforeReturn == InSupervisor => ~Running(ktask) /\ ~Running(ptask)

\* C1 witness: the idle wait was cancelled, a second cancel arrived during the
\* teardown, both tasks were cancelled and have ended, and the session has returned
C1_Witness ==
    /\ pc = "delay" /\ cancels = 2
    /\ ktask = [st |-> "done", cancel |-> TRUE]
    /\ ptask = [st |-> "done", cancel |-> TRUE]

\* C2 (as claimed): once a cancel has been requested, no reconnect delay is started
\* and no scan begins
C2_CancelExitsLoop ==
    [][cancels > 0 => /\ ~(pc' = "delay" /\ pc # "delay")
                      /\ ~(pc' = "scan" /\ pc # "scan")]_vars

\* C3 (as claimed): the supervisor stops only by a cooperative cancellation
C3_NeverStopsOnItsOwn == pc = "stopped" => outcome = "cancel"

\* C4: a background loop that wakes from its sleep issues its read only if
\* is_connected() is true at that moment; after a disconnection during the sleep
\* it issues none
C4_NoReadWhenDisconnected ==
    /\ ev.read # "none" => ev.readLink
    /\ (ev.woke # "none" /\ ~ev.readLink) => ev.read = "none"

\* C4 witness: the keepalive loop woke from a sleep during which the link was lost
C4_Witness == ev.woke = "keepalive" /\ ~ev.readLink /\ ~link /\ ktask.st = "done"

\* C5 (as claimed): a failed transport call of the setup does not abort the session
C5_SetupFailureNotFatal == (ev.setupFailed /\ link) => outcome # "bleak"

\* C6: a change report is emitted exactly when the observed level differs from
\* battery_state.last, it carries the observed level, and it never repeats the
\* value of the report before it
C6_ReportExactlyOnChange ==
    ev.obs # NoLevel =>
        /\ (ev.report # NoLevel) <=> (ev.obs # ev.before)
        /\ ev.report # NoLevel => ev.report = ev.obs /\ ev.report # ev.prevReport

\* C6 witness: with the keepalive loop, the poll loop and the notification handler
\* all active, a poll observed the value already known and reported nothing
C6_Witness ==
    /\ ev.src = "poll" /\ ev.obs = ev.before /\ ev.report = NoLevel
    /\ batHandler /\ Running(ktask)

SubscribeCount(h) ==
    Cardinality({i \in 1..Len(ops) : ops[i].op = "subscribe" /\ ops[i].h = h})

\* C7 (as claimed): without the HID service, every notifiable characteristic has
\* been subscribed exactly once when the idle wait is reached
C7_VendorSubscribedOnce ==
    (~HasHid(tree) /\ pc = "idle") =>
        \A i \in 1..Len(AllChars(tree)) :
            Notifiable(AllChars(tree)[i].props) => SubscribeCount(AllChars(tree)[i].h) = 1

C9_HidScenario ==
    ( /\ pc = "idle"
      /\ \E i \in 1..Len(HidChars(tree)) :
            HidChars(tree)[i].uuid = HID_REPORT /\ Notifiable(HidChars(tree)[i].props)
      /\ \E i \in 1..Len(HidChars(tree)) :
            HidChars(tree)[i].uuid = HID_CONTROL_POINT /\ Writable(HidChars(tree)[i].props) )
    => /\ \E i, j \in 1..Len(ops) :
            /\ i < j
            /\ ops[i].op = "subscribe" /\ ops[i].uuid = HID_REPORT
            /\ ops[j].op = "write" /\ ops[j].uuid = HID_CONTROL_POINT
            /\ ops[j].payload = <<1>>
       /\ Cardinality({j \in 1..Len(ops) :
                          ops[j].op = "write" /\ ops[j].uuid = HID_CONTROL_POINT}) = 1

\* C10 (as claimed): a new attempt starts only after the reconnect delay, the
\* delay is entered only once per ended attempt, the arguments never change, and
\* every attempt that ended without a cancellation is followed by another one
C10_OneWaitThenRetryForever ==
    /\ [][/\ (pc' = "scan" /\ pc # "scan") => pc = "delay"
          /\ (pc' = "delay" /\ pc # "delay") => pc \in {"scan", "connect", "closing"}
          /\ cfg' = cfg]_vars
    /\ []((InSupervisor /\ outcome \in {"return", "bleak", "other"})
            => <>(pc = "scan" \/ cancels > 0))

\* src/main.py:422: the characteristic the keepalive loop reads
keepalive_char(t, c) == pick_keepalive_char(t, find_battery_char(t), c.keepalive_mode)

\* C11 (as claimed): a keepalive read is taken as a battery level (battery_state
\* updated, report printed or on_battery_updated called) only when the keepalive
\* characteristic is the battery-level characteristic
C11_KeepaliveBatteryOnlyFromBatteryChar ==
    ev.src = "keepalive" => keepalive_char(tree, cfg) = find_battery_char(tree)

\* the setup has read the battery source: the call of src/main.py:381
BatterySourceReads == {i \in 1..Len(ops) : ops[i].role = "battery_read"}

\* C12 (as claimed): when the setup is over, a battery source was resolved exactly
\* when some service of the tree holds a readable battery-level characteristic
C12_BatteryFromAnyService ==
    pc = "idle" =>
        (BatterySourceReads # {}
            <=> \E i \in 1..Len(AllChars(tree)) :
                    /\ AllChars(tree)[i].uuid = BATTERY_LEVEL_CHAR_UUID
                    /\ "read" \in AllChars(tree)[i].props)

\* C12 (amended): on both paths the battery source is the first readable
\* battery-level characteristic found inside a Battery Service (0x180F); it is
\* absent exactly when no Battery Service holds a readable battery-level
\* characteristic
C12_BatteryFromBatteryService ==
    pc = "idle" =>
        LET cs == AllChars(tree)
            IsSource(c) == /\ c.svc = BATTERY_SERVICE_UUID
                           /\ c.uuid = BATTERY_LEVEL_CHAR_UUID
                           /\ "read" \in c.props
        IN  /\ BatterySourceReads # {} <=> \E i \in 1..Len(cs) : IsSource(cs[i])
            /\ \A k \in BatterySourceReads :
                  \E i \in 1..Len(cs) :
                      /\ cs[i].h = ops[k].h
                      /\ IsSource(cs[i])
                      /\ \A j \in 1..(i - 1) : ~IsSource(cs[j])

\* C12 witness: on the vendor path the setup has read the battery-level
\* characteristic of the Battery Service and the idle wait is reached
C12_Witness ==
    /\ pc = "idle" /\ ~HasHid(tree)
    /\ \E k \in BatterySourceReads : ops[k].svc = BATTERY_SERVICE_UUID

\* C13 (as claimed): without a target the scan returns a device advertising the
\* HID service whenever one is in range, and only such a device; with a target it
\* returns a device of that address or name; a scan that returns nothing makes the
\* session return without connecting
C13_ScanByTargetOrFirstHid ==
    ev.scanned =>
        /\ cfg.address_or_name = None =>
              /\ (\E d \in ev.inRange : d.hid) => ev.device # None
              /\ ev.device # None => \E d \in ev.inRange : d.address = ev.device /\ d.hid
        /\ cfg.address_or_name # None =>
              (ev.device # None =>
                  \E d \in ev.inRange :
                      /\ d.address = ev.device
                      /\ cfg.address_or_name \in {d.address, d.name})
        /\ ev.device = None => pc = "delay" /\ ~connOpen

\* the (payload, uuid) pairs of src/main.py:339-342, in the order of the loop
HexPairs(c) ==
    <<[hex |-> c.write_ae41_hex, uuid |-> VENDOR_CHAR_AE41_UUID],
      [hex |-> c.write_fff2_hex, uuid |-> VENDOR_CHAR_FFF2_UUID]>>

\* the setup has written payload hex to characteristic c
HexWritten(c, hex) ==
    \E k \in 1..Len(ops) :
        /\ ops[k].op = "write" /\ ops[k].h = c.h
        /\ ValidHex(hex) => ops[k].payload = FromHex(hex)

\* C14 (as claimed): on every connect that reaches the idle wait, each configured
\* payload has been written to each writable characteristic of its uuid, with or
\* without the HID service
C14_HexWrittenOnEveryConnect ==
    pc = "idle" =>
        \A n \in 1..2 : \A i \in 1..Len(AllChars(tree)) :
            LET c == AllChars(tree)[i]
                pair == HexPairs(cfg)[n]
            IN  (pair.hex # NoHex /\ c.uuid = pair.uuid /\ Writable(c.props))
                    => HexWritten(c, pair.hex)

\* C14 (amended): without the HID service, on every connect whose setup reaches
\* the idle wait each configured payload has been written to the first writable
\* characteristic of its uuid in each service; a payload that is not valid hex ends
\* the setup before any write of it or of a later payload; with the HID service
\* no configured payload is ever written
C14_HexWrittenOnVendorPath ==
    /\ HasHid(tree) => \A k \in 1..Len(ops) : ops[k].role # "vendor_write"
    /\ (~HasHid(tree) /\ pc = "idle") =>
          \A n \in 1..2 : \A i \in 1..Len(AllChars(tree)) :
              LET c == AllChars(tree)[i]
                  pair == HexPairs(cfg)[n]
              IN  ( /\ pair.hex # NoHex /\ c.uuid = pair.uuid /\ Writable(c.props)
                    /\ \A j \in 1..(i - 1) :
                          ~ /\ AllChars(tree)[j].svc = c.svc
                            /\ AllChars(tree)[j].h[1] = c.h[1]
                            /\ AllChars(tree)[j].uuid = pair.uuid
                            /\ Writable(AllChars(tree)[j].props) )
                  => /\ ValidHex(pair.hex)
                     /\ HexWritten(c, pair.hex)
    /\ \A n \in 1..2 :
          (~HasHid(tree) /\ HexPairs(cfg)[n].hex # NoHex /\ ~ValidHex(HexPairs(cfg)[n].hex))
              => /\ pc # "idle"
                 /\ \A k \in 1..Len(ops) :
                       ops[k].role = "vendor_write" =>
                           \E m \in 1..(n - 1) : ops[k].uuid = HexPairs(cfg)[m].uuid

\* C14 witness: the second connect of the reconnect loop has reached the idle wait
\* after writing 02 01 to a writable 0xFFF2 of a peripheral without the HID service
C14_Witness ==
    /\ attempt = 2 /\ pc = "idle" /\ ~HasHid(tree)
    /\ \E k \in 1..Len(ops) :
          /\ ops[k].op = "write" /\ ops[k].uuid = VENDOR_CHAR_FFF2_UUID
          /\ ops[k].payload = <<2, 1>>

\* C15: a vendor command write that fails does not abort the session and does
\* not stop the setup: the next call of the setup is issued (the write of the
\* other payload when one is due, then the reads and the battery read), and after
\* the last call the idle wait is entered
C15_VendorWriteFailureNotFatal ==
    [][(pc = "setup" /\ ev'.setupFailed /\ plan[idx].role = "vendor_write") =>
          /\ outcome' # "bleak"
          /\ (idx < Len(plan) /\ plan[idx + 1].op # "raise") =>
                pc' = "setup" /\ idx' = idx + 1 /\ ops' = SubSeq(plan, 1, idx + 1)
          /\ (idx = Len(plan) /\ link) => pc' = "idle"]_vars

\* C15 witness: the write to 0xAE41 has failed and the write to 0xFFF2 is issued
C15_Witness ==
    /\ pc = "setup" /\ ev.setupFailed /\ idx > 1
    /\ plan[idx - 1].role = "vendor_write" /\ plan[idx - 1].uuid = VENDOR_CHAR_AE41_UUID
    /\ plan[idx].role = "vendor_write" /\ plan[idx].uuid = VENDOR_CHAR_FFF2_UUID

\* --------------------------------------------- the bridge's notification wrapper

\* longest notification payload
MaxPayloadLen == 14

\* notification payloads: every length from 0, two byte patterns
Payloads ==
    {[i \in 1..n |-> (k * i) % 256] : n \in 0..MaxPayloadLen, k \in {9, 23}}

\* src/run_ring_oscquery.py:97-134: wrapper(characteristic, data).  log: what it
\* called, in order; raised: an exception left the wrapper.  service.update_value
\* may raise: here the first call of the IMU update or the second of the pointer
\* update
wrapper ==
    /\ \E data \in Payloads, imuRaises \in {0, 1}, ptrRaises \in {0, 2} :
          LET afterImu == IF ImuDue(data)
                          THEN UpdateValues(bridge.nodes, ImuPaths, ImuValues(data),
                                            imuRaises)
                          ELSE bridge.nodes
              bytes == <<ByteAt(data, IDX_BYTE_10), ByteAt(data, IDX_BYTE_11),
                         ByteAt(data, IDX_BYTE_12)>>
              indexError == PointerDue(data) /\ \E i \in 1..3 : bytes[i] = IndexError
              updates == PointerDue(data) /\ ~indexError
          IN  bridge' =
                [nodes |-> IF updates
                           THEN UpdateValues(afterImu, PointerPaths, bytes, ptrRaises)
                           ELSE afterImu,
                 before |-> bridge.nodes,
                 data |-> data,
                 log |-> <<"original_handler">>
                         \o (IF ImuDue(data) THEN <<"imu">> ELSE <<>>)
                         \o (IF updates THEN <<"pointer">> ELSE <<>>),
                 raised |-> indexError]
    /\ UNCHANGED <<tree, cfg, pc, outcome, plan, idx, ops, link, connOpen, cancelPending,
                   cancels, battery_state, batHandler, ktask, ptask, lastReport, ev,
                   attempt, loopWriters, call, prevLast>>

\* the wrapper alone, called with any payload, whatever the session does
BridgeInit == Init /\ tree = TreeHid /\ cfg.address_or_name = "AA:BB:CC:DD:EE:FF"
BridgeSpec == BridgeInit /\ [][wrapper]_vars

\* C16: for every payload length the wrapper calls the core handler first and
\* never raises; it issues the pointer update exactly when the length is greater
\* than 12 and the IMU update exactly when it is at least 12; a completed pointer
\* update publishes bytes 10, 11 and 12; when neither update is due the published
\* values are unchanged
C16_WrapperByLength ==
    bridge.log # <<>> =>
        LET n == Len(bridge.data)
            Called(what) == \E i \in 1..Len(bridge.log) : bridge.log[i] = what
        IN  /\ bridge.log[1] = "original_handler"
            /\ ~bridge.raised
            /\ Called("pointer") <=> n > 12
            /\ Called("imu") <=> n >= 12
            /\ \A p \in {"X", "Y", "press"} :
                  bridge.nodes[p] # bridge.before[p] =>
                      /\ n > 12
                      /\ bridge.nodes[p] = bridge.data[CASE p = "X" -> 11
                                                         [] p = "Y" -> 12
                                                         [] OTHER -> 13]
            /\ n < 12 => bridge.nodes = bridge.before

\* C16 witness: a payload of length 3 arrived after a pointer update had published
\* non-zero values, and they are still there
C16_Witness ==
    /\ Len(bridge.data) = 3 /\ bridge.log = <<"original_handler">>
    /\ bridge.nodes["X"] # 0 /\ bridge.nodes = bridge.before

\* C17: whenever the supervisor sleeps, scans or connects, the connection of the
\* attempt before is closed, so at most one connection is ever open
C17_OneConnection == pc \in {"scan", "connect", "delay"} => ~connOpen

\* C17 witness: a session whose connection was open ended by an exception of its
\* setup, and the supervisor sleeps with the connection closed
C17_Witness == pc = "delay" /\ outcome = "bleak" /\ idx > 0 /\ ~connOpen

\* C18: with keepalive_interval = 0 there is never a keepalive task nor a
\* keepalive read; with battery_poll_interval = 0, or without a battery
\* characteristic, there is never a battery poll task nor a poll read; with both
\* intervals 0 no background loop reads at all
C18_ZeroIntervalDisables ==
    /\ cfg.keepalive_interval = 0 =>
          ktask = NoTask /\ ev.read # "keepalive" /\ ev.src # "keepalive"
    /\ (cfg.battery_poll_interval = 0 \/ find_battery_char(tree) = NoChar) =>
          ptask = NoTask /\ ev.read # "poll" /\ ev.src # "poll"
    /\ (cfg.keepalive_interval = 0 /\ cfg.battery_poll_interval = 0) =>
          ev.read = "none" /\ ev.woke = "none"

\* C18 witness: with both intervals 0 and a battery characteristic present, the
\* setup has made its one-shot reads and the session idles with no task
C18_Witness ==
    /\ cfg.keepalive_interval = 0 /\ cfg.battery_poll_interval = 0
    /\ find_battery_char(tree) # NoChar
    /\ pc = "idle" /\ link /\ ktask = NoTask /\ ptask = NoTask
    /\ \E k \in 1..Len(ops) : ops[k].op = "read"

\* C19 (as claimed): once the link is lost after a successful connect, during the
\* setup or the idle wait, a new session attempt eventually starts, unless a
\* cancellation was requested
C19_LinkLossLeadsToRetry ==
    (connOpen /\ ~link /\ pc \in {"setup", "idle"}) ~> (pc = "scan" \/ cancels > 0)

\* C20 (as claimed): within one session at most one of the two background loops
\* assigns battery_state["last"]
C20_SingleLoopWriter == Cardinality(loopWriters) <= 1

\* C20 (amended): both loops may assign battery_state["last"] in one session; the
\* keepalive loop does so only when it runs and a battery characteristic was
\* resolved, the poll loop only when it runs; every assignment goes with the change
\* report of the same step, so battery_state["last"] is always the level of the
\* latest report of the session
C20_SharedBatteryState ==
    /\ "keepalive" \in loopWriters =>
          StartsKeepalive(tree, cfg) /\ find_battery_char(tree) # NoChar
    /\ "poll" \in loopWriters => StartsBatteryPoll(tree, cfg)
    /\ pc \in {"setup", "idle", "joinK", "joinP"} => battery_state.last = lastReport
    /\ ev.src \in {"keepalive", "poll"} =>
          ((ev.src \in loopWriters /\ battery_state.last = ev.obs) \/ ev.report = NoLevel)

\* C20 witness: in one session both loops have assigned battery_state["last"]
C20_Witness == pc = "idle" /\ loopWriters = {"keepalive", "poll"}

\* C21: a background loop whose task was cancelled issues no further read, a
\* loop starts a sleep only while the connection is alive, and a loop that was
\* cancelled or whose connection is lost ends
C21_LoopsTerminate ==
    /\ [](/\ ev.read = "keepalive" => ~ktask.cancel
          /\ ev.read = "poll" => ~ptask.cancel)
    /\ [][/\ (ktask'.st = "sleep" /\ ktask.st # "sleep") => (link /\ ~ktask.cancel)
          /\ (ptask'.st = "sleep" /\ ptask.st # "sleep") => (link /\ ~ptask.cancel)]_vars
    /\ (Running(ktask) /\ (ktask.cancel \/ ~link)) ~> ~Running(ktask)
    /\ (Running(ptask) /\ (ptask.cancel \/ ~link)) ~> ~Running(ptask)

\* C21 witness: the keepalive task was cancelled while the connection was alive
\* and has ended, and the session awaits it
C21_Witness == pc = "joinK" /\ link /\ ktask = [st |-> "done", cancel |-> TRUE]

\* C22: the connection is closed only when every started background task has
\* ended (while the client disconnects, and whenever the connection is closed, no
\* task is alive), no background read is issued on a closed connection, and a
\* step of a background loop or of the battery notification handler never opens
\* or closes the connection: only the session's connect and disconnect do
C22_TeardownOrdered ==
    /\ []((pc = "closing" \/ ~connOpen) => (~Running(ktask) /\ ~Running(ptask)))
    /\ [](ev.read # "none" => connOpen)
    /\ [][connOpen' # connOpen => (pc \in {"connect", "closing"} /\ pc' # pc)]_vars
    /\ [][(ktask' # ktask \/ ptask' # ptask \/ ev'.src \in {"keepalive", "poll", "notify"}
           \/ ev'.woke # "none")
          => (pc' # pc \/ connOpen' = connOpen)]_vars

\* C22 witness: the idle wait was left, both tasks were cancelled and have ended,
\* and the client disconnects while the connection is still open
C22_Witness ==
    /\ pc = "closing" /\ connOpen
    /\ ktask = [st |-> "done", cancel |-> TRUE]
    /\ ptask = [st |-> "done", cancel |-> TRUE]

\* C23 (as claimed): a step that invoked on_battery_updated, which may raise, at
\* the initial read, a notification, a keepalive read, a poll read or the vendor
\* fallback read, never ends the session with an exception the supervisor does
\* not survive
C23_HookFailureNeverFatal == ev.cb # NoLevel => outcome # "other"

\* the services a peripheral may expose to _pick_keepalive_char: a readable
\* control point first, a control point alone, battery-level characteristics
\* readable or not, inside and outside a Battery Service
GattServices ==
    { Svc(HID_SERVICE_UUID, <<Chr(HID_CONTROL_POINT, {"read", "write"}),
                              Chr(HID_REPORT, {"read", "notify"})>>),
      Svc(HID_SERVICE_UUID, <<Chr(HID_CONTROL_POINT, {"write"})>>),
      Svc(HID_SERVICE_UUID, <<Chr(HID_CONTROL_POINT, {"read"})>>),
      Svc(BATTERY_SERVICE_UUID, <<Chr(BATTERY_LEVEL_CHAR_UUID, {"read", "notify"})>>),
      Svc(BATTERY_SERVICE_UUID, <<Chr(BATTERY_LEVEL_CHAR_UUID, {"notify"})>>),
      Svc(BATTERY_SERVICE_UUID, <<Chr("ae42", {"read"}),
                                  Chr(BATTERY_LEVEL_CHAR_UUID, {"read"})>>),
      Svc("ae40", <<Chr(VENDOR_CHAR_AE41_UUID, {"write"}),
                    Chr(BATTERY_LEVEL_CHAR_UUID, {"read"})>>),
      Svc("ae40", <<Chr("ae42", {"read"})>>) }

\* a peripheral has at most this many of them
MaxServices == 2

GattTrees == UNION {[1..n -> GattServices] : n \in 1..MaxServices}

KeepaliveModes == {"battery", "vendor", "read-report"}

\* src/main.py:379, 422: _pick_keepalive_char(client, battery_char, keepalive_mode)
\* is called with the battery characteristic _find_battery_char has found
PickKeepaliveCall ==
    /\ call.fn = "_pick_keepalive_char" /\ ~call.done
    /\ call' = [call EXCEPT
                   !.done = TRUE,
                   !.battery_char = find_battery_char(call.tree),
                   !.result = pick_keepalive_char(call.tree, find_battery_char(call.tree),
                                                  call.keepalive_mode)]
    /\ UNCHANGED <<tree, cfg, pc, outcome, plan, idx, ops, link, connOpen, cancelPending,
                   cancels, battery_state, batHandler, ktask, ptask, lastReport, ev,
                   attempt, bridge, loopWriters, prevLast>>

\* _pick_keepalive_char alone, called once with any tree and mode
PickInit ==
    /\ Start /\ tree = TreeHid /\ cfg.address_or_name = "AA:BB:CC:DD:EE:FF"
    /\ call \in {[fn |-> "_pick_keepalive_char", tree |-> t, keepalive_mode |-> mode,
                   battery_char |-> NoChar, done |-> FALSE, result |-> NoChar] :
                  t \in GattTrees, mode \in KeepaliveModes}

PickSpec == PickInit /\ [][PickKeepaliveCall]_vars

\* C24: _pick_keepalive_char returns the battery characteristic when the mode is
\* "battery" and one exists; otherwise the first characteristic in enumeration
\* order that is readable and is not the HID control point, and None when there
\* is no such characteristic; whatever it returns is readable, is a
\* characteristic of the tree and is never the control point
C24_KeepalivePreference ==
    (call.fn = "_pick_keepalive_char" /\ call.done) =>
        LET cs == AllChars(call.tree)
            Ok(i) == "read" \in cs[i].props /\ cs[i].uuid # HID_CONTROL_POINT
            r == call.result
        IN  /\ (call.keepalive_mode = "battery" /\ call.battery_char # NoChar)
                    => r = call.battery_char
            /\ ~(call.keepalive_mode = "battery" /\ call.battery_char # NoChar)
                    => \/ r = NoChar /\ \A i \in 1..Len(cs) : ~Ok(i)
                       \/ \E i \in 1..Len(cs) :
                             /\ r = cs[i] /\ Ok(i)
                             /\ \A j \in 1..(i - 1) : ~Ok(j)
            /\ r # NoChar => /\ "read" \in r.props
                             /\ r.uuid # HID_CONTROL_POINT
                             /\ \E i \in 1..Len(cs) : cs[i] = r
            /\ r = NoChar => \A i \in 1..Len(cs) : ~Ok(i)

\* C24 witness: the first characteristic of the tree is a readable control point,
\* the mode is not "battery", and the readable report after it was chosen
C24_Witness ==
    /\ call.fn = "_pick_keepalive_char" /\ call.done /\ call.keepalive_mode = "vendor"
    /\ AllChars(call.tree)[1].uuid = HID_CONTROL_POINT
    /\ "read" \in AllChars(call.tree)[1].props
    /\ call.battery_char # NoChar
    /\ call.result.h = <<1, 2>> /\ call.result.uuid = HID_REPORT

\* C25: battery_state.last is None or within 0..100, and so is every value given
\* to on_battery_updated; the level taken from a first byte b is min(100, max(0, b)),
\* for the bytes read and for every byte 0..255; and a step without an observation
\* (an empty or failed read among them) leaves battery_state as it is and calls
\* no callback, apart from the fresh battery_state of a new session and the vendor
\* fallback read, which passes on only a byte within 0..100
C25_LevelWithinRange ==
    /\ [](/\ battery_state.last \in {NoLevel} \cup 0..100
          /\ ev.cb \in {NoLevel} \cup 0..100
          /\ ev.obs # NoLevel =>
                /\ ev.raw \in 0..255
                /\ ev.obs = (IF ev.raw > 100 THEN 100 ELSE ev.raw)
                /\ ev.cb \in {NoLevel, ev.obs}
          /\ \A b \in 0..255 : Clamp(b) = (IF b > 100 THEN 100 ELSE b))
    /\ [][ev'.obs = NoLevel =>
             /\ battery_state' = battery_state \/ pc = "connect"
             /\ ev'.cb = NoLevel \/ ev'.src = "vendor"]_vars

\* C25 witness: a battery notification delivered a byte above 100 and the level
\* stored and given to the callback is 100
C25_Witness ==
    /\ ev.src = "notify" /\ ev.raw = 200 /\ ev.cb = 100 /\ battery_state.last = 100

\* C26: a given on_battery_updated is called with the level of every successful
\* battery observation (the one initial read, made before any background task
\* exists, a poll read, a keepalive read of the battery characteristic, a battery
\* notification), changed or not, while the report is printed exactly when the
\* level differs from the last one
C26_CallbackOnEveryObservation ==
    /\ ev.obs # NoLevel =>
          /\ cfg.on_battery_updated # "none" => ev.cb = ev.obs
          /\ ev.report = (IF ev.obs # ev.before THEN ev.obs ELSE NoLevel)
    /\ ev.src = "initial" => ktask = NoTask /\ ptask = NoTask
    /\ Cardinality({i \in 1..Len(plan) : plan[i].role = "battery_read"}) <= 1

\* C26 witness: a keepalive read of the battery characteristic returned the level
\* already known: the callback got it and no report was printed
C26_Witness ==
    /\ ev.src = "keepalive" /\ keepalive_char(tree, cfg) = find_battery_char(tree)
    /\ ev.obs = ev.before /\ ev.cb = ev.obs /\ ev.report = NoLevel

\* C27: the session advances one step at a time: a connection is attempted only
\* after a scan that returned a device, and a scan that returned none opens no
\* connection; a connect that leaves the client not connected issues no GATT call
\* and creates no task; the setup calls are issued one by one in the order of the
\* setup code, and only by the connect and setup steps; and a background task
\* exists only when every setup call has been issued and has ended
C27_SequentialSetup ==
    /\ [](/\ ops = SubSeq(plan, 1, idx)
          /\ (ktask # NoTask \/ ptask # NoTask) => (idx = Len(plan) /\ ops = plan)
          /\ pc = "setup" => (ktask = NoTask /\ ptask = NoTask /\ connOpen))
    /\ [][/\ (pc' = "connect" /\ pc # "connect") => (pc = "scan" /\ ev'.device # None)
          /\ (pc = "scan" /\ ev'.scanned /\ ev'.device = None)
                => (pc' = "delay" /\ ~connOpen' /\ ops' = <<>>)
          /\ (connOpen' /\ ~connOpen) => pc = "connect"
          /\ (pc = "connect" /\ ~link')
                => (ops' = <<>> /\ ktask' = NoTask /\ ptask' = NoTask
                    /\ pc' \notin {"setup", "idle"})
          /\ ops' # ops => \/ pc \in {"connect", "setup"} /\ Len(ops') = Len(ops) + 1
                           \/ pc = "delay" /\ ops' = <<>>
          /\ ((ktask' # NoTask /\ ktask = NoTask) \/ (ptask' # NoTask /\ ptask = NoTask))
                => (pc \in {"connect", "setup"} /\ idx' = Len(plan'))]_vars

\* C27 witness: every call of a setup of at least four calls has ended and both
\* background tasks have just been created
C27_Witness ==
    /\ pc = "idle" /\ idx = Len(plan) /\ Len(plan) >= 4
    /\ ktask = NewTask /\ ptask = NewTask

\* C28: a read of a background loop that fails leaves battery_state as it is and
\* calls no callback; while the connection is alive the loop then sleeps again,
\* and a read is only ever issued out of a sleep (no immediate retry); a loop
\* ends only when it was cancelled or the connection is lost
C28_FailedReadKeepsLoop ==
    /\ [](/\ (ev.failed = "keepalive" /\ link /\ ~ktask.cancel) => ktask.st = "sleep"
          /\ (ev.failed = "poll" /\ link /\ ~ptask.cancel) => ptask.st = "sleep"
          /\ ev.failed # "none" => (ev.cb = NoLevel /\ ev.report = NoLevel))
    /\ [][/\ ev'.failed # "none" => battery_state' = battery_state
          /\ (ktask'.st = "read" /\ ktask.st # "read") => ktask.st = "sleep"
          /\ (ptask'.st = "read" /\ ptask.st # "read") => ptask.st = "sleep"
          /\ (ktask'.st = "done" /\ Running(ktask)) => (ktask.cancel \/ ~link)
          /\ (ptask'.st = "done" /\ Running(ptask)) => (ptask.cancel \/ ~link)]_vars

\* C28 witness: a poll read has failed with the connection alive and a level
\* known, and the poll loop sleeps again
C28_Witness ==
    /\ ev.failed = "poll" /\ link /\ ptask = [st |-> "sleep", cancel |-> FALSE]
    /\ battery_state.last # NoLevel /\ pc = "idle"

\* C29: every session starts its setup with battery_state.last unknown, it stays
\* unknown until the first report of the session, and the first battery
\* observation of a session finds it unknown and is reported, also when its level
\* is the last one of the session before
C29_BatteryStatePerSession ==
    /\ []((pc \in {"setup", "idle", "joinK", "joinP"} /\ lastReport = NoLevel)
             => battery_state.last = NoLevel)
    /\ []((ev.obs # NoLevel /\ ev.before = NoLevel) => ev.report = ev.obs)
    /\ [][/\ (pc = "connect" /\ pc' \in {"setup", "idle"}) => battery_state'.last = NoLevel
          /\ (ev'.obs # NoLevel /\ lastReport = NoLevel)
                => (ev'.before = NoLevel /\ ev'.report = ev'.obs)]_vars

\* C29 witness: in a later session of the reconnect loop the initial read returned
\* the level the session before had last seen, and it was reported
C29_Witness ==
    /\ attempt = 2 /\ ev.src = "initial" /\ prevLast # NoLevel
    /\ ev.obs = prevLast /\ ev.before = NoLevel /\ ev.report = ev.obs

\* what _parse_int16_le is called with: every pair of bytes at offset 0, and the
\* payloads of every length with every offset up to one past their end
ParseInputs ==
    {[data |-> <<low, high>>, offset |-> 0] : low \in 0..255, high \in 0..255}
    \cup {[data |-> d, offset |-> o] : d \in Payloads, o \in 0..(MaxPayloadLen + 1)}

\* src/run_ring_oscquery.py:102-107: _parse_int16_le(data, offset)
ParseInt16Call ==
    /\ call.fn = "_parse_int16_le" /\ ~call.done
    /\ call' = [call EXCEPT !.done = TRUE,
                            !.result = parse_int16_le(call.data, call.offset)]
    /\ UNCHANGED <<tree, cfg, pc, outcome, plan, idx, ops, link, connOpen, cancelPending,
                   cancels, battery_state, batHandler, ktask, ptask, lastReport, ev,
                   attempt, bridge, loopWriters, prevLast>>

\* _parse_int16_le alone, called once
ParseInit ==
    /\ Start /\ tree = TreeHid /\ cfg.address_or_name = "AA:BB:CC:DD:EE:FF"
    /\ call \in {[fn |-> "_parse_int16_le", data |-> in.data, offset |-> in.offset,
                   done |-> FALSE, result |-> 0] : in \in ParseInputs}

ParseSpec == ParseInit /\ [][ParseInt16Call]_vars

\* C30: when two bytes lie at the offset, _parse_int16_le returns the number of
\* -32768..32767 that is congruent modulo 65536 to low + 256 * high (its
\* two's-complement value); when offset + 2 is greater than the length of the
\* payload it returns 0
C30_ParseInt16 ==
    (call.fn = "_parse_int16_le" /\ call.done) =>
        IF call.offset + 2 > Len(call.data)
        THEN call.result = 0
        ELSE LET u == call.data[call.offset + 1] + 256 * call.data[call.offset + 2]
             IN  /\ call.result \in -32768..32767
                 /\ (call.result - u) % 65536 = 0
                 /\ u < 32768 => call.result = u
                 /\ u >= 32768 => call.result = u - 65536

\* C30 witness: the bytes 0x00 0x80 were decoded as -32768
C30_Witness ==
    /\ call.fn = "_parse_int16_le" /\ call.done
    /\ call.data = <<0, 128>> /\ call.offset = 0 /\ call.result = -32768

====
